---- MODULE Spec2Model ----
(***************************************************************************)
(* Lantern (src/src/lantern.py): the special-form handlers ROOM, EXIT,     *)
(* CEXIT, SETG/PSETG that sit on top of the Muddle evaluator (mud.py), the *)
(* room extraction get_rooms, the graph builder get_graph and the three    *)
(* serializers get_lisp, get_json, get_graphviz.                           *)
(*                                                                         *)
(* Python values are modelled as records [k, v]:                           *)
(*   a str        [k |-> "str",  v |-> <<its characters>>]                 *)
(*   a list       [k |-> "list", v |-> <<its items>>]                      *)
(*   None         [k |-> "none", v |-> <<>>]                               *)
(*   a room dict  [k |-> "room", v |-> [key, name, desc, exits]]           *)
(* A token of the parsed source is a str that still carries its quotes:    *)
(* the key "A" of the source is the three-character str <<Q, "A", Q>>,     *)
(* which is why get_graph strips one character at each end.                *)
(***************************************************************************)
EXTENDS Integers, Sequences, FiniteSets, TLC

VARIABLES source, global_env, rooms, out, pc, runs, fresh, hist, last, lastSet

vars == <<source, global_env, rooms, out, pc, runs, fresh, hist, last, lastSet>>

(* ------------------------------ bounds --------------------------------- *)
\* top-level forms in one source text
MaxForms == 3
\* direction/target groups in one EXIT list given to the handlers
MaxPairs == 2
\* times the pipeline is run on the same source text in one process
MaxRuns == 2

(* ------------------------------ values --------------------------------- *)
Str(chars) == [k |-> "str", v |-> chars]
List(items) == [k |-> "list", v |-> items]
None == [k |-> "none", v |-> <<>>]
RoomDict(key, name, desc, exits) ==
    [k |-> "room", v |-> [key |-> key, name |-> name, desc |-> desc, exits |-> exits]]

Q == "\""
Quoted(c) == Str(<<Q, c, Q>>)
KeyA == Quoted("A")
KeyB == Quoted("B")
KeyC == Quoted("C")
DoorKey == Quoted("D")
DirN == Quoted("N")
DirS == Quoted("S")
DescD == Quoted("d")
NameN == Quoted("n")
Msg == Quoted("m")
CondX == Quoted("X")
EmptyLit == Str(<<Q, Q>>)
\* the no-exit sentinel token of the source
NEXIT == Str(<<"#", "N", "E", "X", "I", "T">>)
VarX == Str(<<"X">>)
VarY == Str(<<"Y">>)
IndX == Str(<<",", "X">>)
IndY == Str(<<",", "Y">>)
ROOM_KEY == Str(<<"R", "O", "O", "M", "-", "K", "E", "Y">>)

SymROOM == Str(<<"R", "O", "O", "M">>)
SymEXIT == Str(<<"E", "X", "I", "T">>)
SymCEXIT == Str(<<"C", "E", "X", "I", "T">>)
SymDOOR == Str(<<"D", "O", "O", "R">>)
SymSETG == Str(<<"S", "E", "T", "G">>)
SymPSETG == Str(<<"P", "S", "E", "T", "G">>)

\* python: token.startswith(',')
StartsWithComma(token) == Len(token.v) >= 1 /\ token.v[1] = ","

(* --------------------------- the global store -------------------------- *)
\* mud.global_env: a dict from names (character sequences) to values
Lookup(g, name) == IF name.v \in DOMAIN g THEN g[name.v] ELSE None

\* the same write under the bare name, without the comma
SetGlobalNoComma(g, var, value) ==
    [n \in DOMAIN g \cup {var.v} |-> IF n = var.v THEN value ELSE g[n]]

\* mud.global_env[',' + var] = value
SetGlobal(g, var, value) ==
    LET name == <<",">> \o var.v
    IN  [n \in DOMAIN g \cup {name} |-> IF n = name THEN value ELSE g[n]]

(* ---------------------------- environments ----------------------------- *)
\* mud.Env(parms, args, outer): a chain of frames, innermost first; the
\* outermost (global) frame is the empty chain
Env(parms, args, outer) == <<[parms |-> parms, args |-> args]>> \o outer

RECURSIVE findvalue(_, _)
findvalue(env, name) ==
    IF env = <<>> THEN None
    ELSE LET f == Head(env)
             hits == {i \in 1..Len(f.parms) : f.parms[i] = name}
         IN  IF hits # {} THEN f.args[CHOOSE i \in hits : TRUE]
             ELSE findvalue(Tail(env), name)

(* ------------------------------ handlers ------------------------------- *)
\* The evaluation threads a world w = [g, log]: g is mud.global_env, log is
\* the record of the form_setg calls made so far, <<var, returned value>>.
World(g) == [g |-> g, log |-> <<>>]

\* the DOOR branch with its two sides exchanged
DoorOtherSame(token, roomkey) ==
    IF token.v[3] = roomkey THEN token.v[3] ELSE token.v[4]

\* form_exit, the DOOR branch: token 2 or 3, the one other than the room
DoorOther(token, roomkey) ==
    IF token.v[3] = roomkey THEN token.v[4] ELSE token.v[3]

RECURSIVE Eval(_, _, _)
RECURSIVE ExitLoop(_, _, _, _)

\* form_setg: evaluate x[2], store it under ',' + x[1], return it
form_setg(x, env, w) ==
    LET var == x.v[2]
        form == x.v[3]
        r == Eval(form, env, w)
    IN  [val |-> r.val,
         w |-> [g |-> SetGlobal(r.w.g, var, r.val),
                log |-> Append(r.w.log, <<var, r.val>>)]]

\* the same with the fform x[3] in place of the tform
form_cexit_false(x, env, w) == Eval(x.v[4], env, w)

\* form_cexit: evaluate the tform x[2] and return it
form_cexit(x, env, w) == Eval(x.v[3], env, w)

\* form_exit: the tokens after the tag, left to right
form_exit(x, env, w) == ExitLoop(Tail(x.v), env, w, <<>>)

\* form_room: bind ROOM-KEY, evaluate name, desc, exits, build the dict
form_room(x, env, w) ==
    LET key == x.v[2]
        newenv == Env(<<ROOM_KEY>>, <<key>>, env)
        rn == Eval(x.v[4], newenv, w)
        rd == Eval(x.v[3], newenv, rn.w)
        re == Eval(x.v[5], newenv, rd.w)
    IN  [val |-> RoomDict(key, rn.val, rd.val, re.val.v), w |-> re.w]

\* one turn of form_exit's while loop
ExitLoop(tokens, env, w, exits) ==
    IF tokens = <<>> THEN [val |-> List(exits), w |-> w]
    ELSE LET token == Head(tokens)
             r == IF token.k = "list"
                  THEN IF token.v[1] = SymCEXIT THEN Eval(token, <<>>, w)
                       ELSE IF token.v[1] = SymDOOR
                       THEN [val |-> DoorOther(token, findvalue(env, ROOM_KEY)),
                             w |-> w]
                       ELSE IF token.v[1] = SymSETG THEN Eval(token, <<>>, w)
                       ELSE [val |-> token, w |-> w]
                  ELSE IF StartsWithComma(token)
                  THEN LET e == Eval(token, <<>>, w)
                       IN  IF e.val = None THEN [val |-> token, w |-> e.w] ELSE e
                  ELSE [val |-> token, w |-> w]
         IN  ExitLoop(Tail(tokens), env, r.w, Append(exits, r.val))

\* mud.eval: an indirection token is looked up in the global store (None when
\* it is not there), any other token is itself; a form whose head is in
\* mud.forms goes to its handler; any other form is returned as it is
Eval(x, env, w) ==
    IF x.k # "list"
    THEN IF StartsWithComma(x) THEN [val |-> Lookup(w.g, x), w |-> w]
         ELSE [val |-> x, w |-> w]
    ELSE IF x.v[1] = SymROOM THEN form_room(x, env, w)
    ELSE IF x.v[1] = SymEXIT THEN form_exit(x, env, w)
    ELSE IF x.v[1] = SymCEXIT THEN form_cexit(x, env, w)
    ELSE IF x.v[1] \in {SymSETG, SymPSETG} THEN form_setg(x, env, w)
    ELSE [val |-> x, w |-> w]

\* mud.eval of "(list f1 f2 ...)": the forms in order, one value each
RECURSIVE EvalForms(_, _, _)
EvalForms(forms, w, objs) ==
    IF forms = <<>> THEN [val |-> objs, w |-> w]
    ELSE LET r == Eval(Head(forms), <<>>, w)
         IN  EvalForms(Tail(forms), r.w, Append(objs, r.val))

IsRoom(obj) == obj.k = "room"

\* get_rooms: evaluate the program, keep the dicts
get_rooms(muddle, g) ==
    LET r == EvalForms(muddle, World(g), <<>>)
        sel == SelectSeq(r.val, IsRoom)
    IN  [rooms |-> [i \in 1..Len(sel) |-> sel[i].v], w |-> r.w]

(* --------------------------- graph builder ----------------------------- *)
\* s[1:], which keeps the closing delimiter
tostr_keep_last(s) == [k |-> s.k, v |-> SubSeq(s.v, 2, Len(s.v))]

\* tostr = lambda s: s[1:-1]
tostr(s) == [k |-> s.k, v |-> SubSeq(s.v, 2, Len(s.v) - 1)]

\* s[1:-1] raises TypeError on None
Sliceable(s) == s.k \in {"str", "list"}

\* the same walk with pop() in place of pop(0): pairs taken from the end
RECURSIVE WalkExitsFromEnd(_, _, _)
WalkExitsFromEnd(key, exits, exitlist) ==
    IF exits = <<>> THEN [ok |-> TRUE, exits |-> exits, exitlist |-> exitlist]
    ELSE IF Len(exits) = 1 THEN [ok |-> FALSE, exits |-> <<>>, exitlist |-> exitlist]
    ELSE LET n == Len(exits)
             dir == exits[n - 1]
             target == exits[n]
             rest == SubSeq(exits, 1, n - 2)
         IN  IF ~(Sliceable(dir) /\ Sliceable(target))
             THEN [ok |-> FALSE, exits |-> rest, exitlist |-> exitlist]
             ELSE WalkExitsFromEnd(key, rest,
                      Append(exitlist, [source |-> key, dir |-> tostr(dir),
                                        target |-> tostr(target)]))

\* get_graph, "while exits": pop dir, pop target, strip both, append the
\* edge; ok is FALSE when a pop or a slice raises, exits is what is left of
\* the room's own list at that point
RECURSIVE WalkExits(_, _, _)
WalkExits(key, exits, exitlist) ==
    IF exits = <<>> THEN [ok |-> TRUE, exits |-> exits, exitlist |-> exitlist]
    ELSE IF Len(exits) = 1 THEN [ok |-> FALSE, exits |-> <<>>, exitlist |-> exitlist]
    ELSE LET dir == exits[1]
             target == exits[2]
             rest == SubSeq(exits, 3, Len(exits))
         IN  IF ~(Sliceable(dir) /\ Sliceable(target))
             THEN [ok |-> FALSE, exits |-> rest, exitlist |-> exitlist]
             ELSE WalkExits(key, rest,
                      Append(exitlist, [source |-> key, dir |-> tostr(dir),
                                        target |-> tostr(target)]))

\* get_graph, "for room in rooms" from room i on; rs is the room list, whose
\* exits lists the walk empties in place
RECURSIVE GraphLoop(_, _, _, _)
GraphLoop(rs, i, roomlist, exitlist) ==
    IF i > Len(rs)
    THEN [ok |-> TRUE, rooms |-> rs,
          graph |-> [rooms |-> roomlist, exits |-> exitlist]]
    ELSE LET room == rs[i]
         IN  IF ~(Sliceable(room.key) /\ Sliceable(room.name) /\ Sliceable(room.desc))
             THEN [ok |-> FALSE, rooms |-> rs,
                   graph |-> [rooms |-> roomlist, exits |-> exitlist]]
             ELSE LET key == tostr(room.key)
                      obj == [key |-> key, name |-> tostr(room.name),
                              desc |-> tostr(room.desc)]
                      walk == WalkExits(key, room.exits, exitlist)
                      rs2 == [rs EXCEPT ![i].exits = walk.exits]
                  IN  IF ~walk.ok
                      THEN [ok |-> FALSE, rooms |-> rs2,
                            graph |-> [rooms |-> Append(roomlist, obj),
                                       exits |-> walk.exitlist]]
                      ELSE GraphLoop(rs2, i + 1, Append(roomlist, obj), walk.exitlist)

\* get_graph
get_graph(rs) == GraphLoop(rs, 1, <<>>, <<>>)

(* ----------------------------- serializers ----------------------------- *)
\* ' '.join(strings)
RECURSIVE Join(_)
Join(strs) ==
    IF strs = <<>> THEN <<>>
    ELSE IF Len(strs) = 1 THEN strs[1].v
    ELSE strs[1].v \o <<" ">> \o Join(Tail(strs))

\* get_lisp: one block per room from its fields as they are; join raises
\* TypeError when an exit is not a str. A block stands for the text
\* "(room KEY\n    (name NAME)\n    (desc DESC)\n    (exit EXITS))".
get_lisp(rs) ==
    LET ok == \A i \in 1..Len(rs) : \A j \in 1..Len(rs[i].exits) :
                  rs[i].exits[j].k = "str"
    IN  [ok |-> ok,
         text |-> IF ok
                  THEN [i \in 1..Len(rs) |->
                           [key |-> rs[i].key, name |-> rs[i].name,
                            desc |-> rs[i].desc, exit |-> Join(rs[i].exits)]]
                  ELSE <<>>]

\* 'NEXI': what tostr leaves of the sentinel token
NEXI == Str(<<"N", "E", "X", "I">>)

IsEdgeShown(exit) == exit.target # NEXI

\* get_graphviz, given the graph: a node line per room, an edge line per exit
\* whose target is not 'NEXI' ("digraph zork {" and "}" around them)
GraphvizLines(graph) ==
    LET shown == SelectSeq(graph.exits, IsEdgeShown)
    IN  [i \in 1..Len(graph.rooms) |->
            [t |-> "node", a |-> graph.rooms[i].key, b |-> graph.rooms[i].name]]
        \o [i \in 1..Len(shown) |->
            [t |-> "edge", a |-> shown[i].source, b |-> shown[i].target]]

(* ------------------------------- inputs -------------------------------- *)
RoomForm(key, desc, name, tokens) ==
    List(<<SymROOM, key, desc, name, List(<<SymEXIT>> \o tokens)>>)
SetgForm(head, var, form) == List(<<head, var, form>>)
DoorForm(doorkey, roomA, roomB) == List(<<SymDOOR, doorkey, roomA, roomB>>)
CexitForm(cond, tform, fform) == List(<<SymCEXIT, cond, tform, fform>>)

DoorAB == DoorForm(DoorKey, KeyA, KeyB)
DoorBC == DoorForm(DoorKey, KeyB, KeyC)
CexitLit == CexitForm(CondX, KeyB, Msg)
CexitInd == CexitForm(CondX, IndX, KeyA)
SetgYA == SetgForm(SymSETG, VarY, KeyA)

SeqsUpTo(S, n) == UNION {[1..m -> S] : m \in 0..n}

RECURSIVE Flatten(_)
Flatten(groups) ==
    IF groups = <<>> THEN <<>> ELSE Head(groups) \o Flatten(Tail(groups))

\* a direction followed by one target, or by the sentinel (once, or twice as
\* in the source glitch) and its explanation
Groups ==
    {<<DirN, t>> : t \in {KeyB, IndX, DoorAB, DoorBC, CexitLit, CexitInd, SetgYA}}
    \cup {<<DirN, NEXIT, Msg>>, <<DirN, NEXIT, NEXIT, Msg>>}

\* the token sequences given to the EXIT handler
ExitLists == {Flatten(gs) : gs \in SeqsUpTo(Groups, MaxPairs)}

RoomKeys == {KeyA, KeyB}
SetgHeads == {SymSETG, SymPSETG}
SetgVars == {VarX, VarY}
SetgValues == {KeyB, DoorAB, IndY}

\* the top-level forms of the source texts of the pipeline
PipeForms ==
    {SetgForm(SymSETG, VarX, DoorAB),
     RoomForm(KeyA, DescD, NameN, <<DirN, IndX>>),
     RoomForm(KeyB, DescD, NameN, <<DirS, IndX>>),
     RoomForm(KeyA, EmptyLit, NameN, <<DirN, KeyB, DirS, KeyA>>),
     RoomForm(KeyB, DescD, NameN, <<DirN, NEXIT, Msg>>),
     RoomForm(KeyB, IndX, NameN, <<DirN, DoorAB, DirS, CexitLit>>)}
Programs == SeqsUpTo(PipeForms, MaxForms)

(* ------------------------------- state --------------------------------- *)
NoOut == [kind |-> "none", ok |-> TRUE, v |-> <<>>]
NoLast == [kind |-> "none", x |-> None, gpre |-> <<>>, val |-> None]
EmptyEnv == <<>>

\* lastSet after the form_setg calls of one evaluation, oldest first
RECURSIVE ApplyLog(_, _)
ApplyLog(ls, log) ==
    IF log = <<>> THEN ls
    ELSE LET var == Head(log)[1].v
             val == Head(log)[2]
         IN  ApplyLog([n \in DOMAIN ls \cup {var} |-> IF n = var THEN val ELSE ls[n]],
                      Tail(log))

\* source is the text given to get_rooms; out is the last serializer result
\* (ok is FALSE when the call raised); fresh says that no serializer has run
\* since get_rooms; hist holds the result of the first pipeline run (get_rooms,
\* then one serializer) and of each later run that used the same serializer;
\* last is the last form evaluated on its own, lastSet the value each
\* SETG/PSETG last returned for a name
Init ==
    /\ source \in Programs
    /\ global_env = EmptyEnv
    /\ rooms = <<>>
    /\ out = NoOut
    /\ pc = "start"
    /\ runs = 0
    /\ fresh = FALSE
    /\ hist = <<>>
    /\ last = NoLast
    /\ lastSet = EmptyEnv

(* ------------------------------ pipeline ------------------------------- *)
\* rooms = get_rooms(muddle)
GetRooms ==
    /\ pc \in {"start", "rooms"}
    /\ runs < MaxRuns
    /\ LET r == get_rooms(source, global_env)
       IN  /\ rooms' = r.rooms
           /\ global_env' = r.w.g
    /\ out' = NoOut
    /\ pc' = "rooms"
    /\ runs' = runs + 1
    /\ fresh' = TRUE
    /\ UNCHANGED <<source, hist, last, lastSet>>

\* what one serializer call leaves: its result, the room list as the call
\* left it, and the end of the run when it raised
Serialized(ok, kind, value, rs) ==
    /\ out' = [kind |-> kind, ok |-> ok, v |-> IF ok THEN value ELSE <<>>]
    /\ rooms' = rs
    /\ pc' = IF ok THEN "rooms" ELSE "aborted"
    /\ fresh' = FALSE
    /\ hist' = IF fresh /\ (hist = <<>> \/ hist[1].kind = kind)
                THEN Append(hist, out') ELSE hist
    /\ UNCHANGED <<source, global_env, runs, last, lastSet>>

GetGraph ==
    /\ pc = "rooms"
    /\ LET r == get_graph(rooms) IN Serialized(r.ok, "graph", r.graph, r.rooms)

\* get_json: json.dumps of the graph (the text is the graph, written out)
GetJson ==
    /\ pc = "rooms"
    /\ LET r == get_graph(rooms) IN Serialized(r.ok, "json", r.graph, r.rooms)

GetGraphviz ==
    /\ pc = "rooms"
    /\ LET r == get_graph(rooms)
       IN  Serialized(r.ok, "graphviz", GraphvizLines(r.graph), r.rooms)

GetLisp ==
    /\ pc = "rooms"
    /\ LET r == get_lisp(rooms) IN Serialized(r.ok, "lisp", r.text, rooms)

Next == GetRooms \/ GetGraph \/ GetJson \/ GetGraphviz \/ GetLisp

Spec == Init /\ [][Next]_vars

(* ------------------- the handlers, one form at a time ------------------- *)
InitHandlers ==
    /\ source = <<>>
    /\ global_env = EmptyEnv
    /\ rooms = <<>>
    /\ out = NoOut
    /\ pc = "start"
    /\ runs = 0
    /\ fresh = FALSE
    /\ hist = <<>>
    /\ last = NoLast
    /\ lastSet = EmptyEnv

Evaluated(kind, x) ==
    LET r == Eval(x, <<>>, World(global_env))
    IN  /\ global_env' = r.w.g
        /\ last' = [kind |-> kind, x |-> x, gpre |-> global_env, val |-> r.val]
        /\ lastSet' = ApplyLog(lastSet, r.w.log)
        /\ UNCHANGED <<source, rooms, out, pc, runs, fresh, hist>>

\* a top-level <ROOM key desc name <EXIT tokens...>>, after any SETG/PSETG
\* forms (several ROOM forms in one text are the pipeline's, above)
EvalRoom ==
    /\ pc = "start"
    /\ last.kind # "room"
    /\ \E key \in RoomKeys, tokens \in ExitLists :
           Evaluated("room", RoomForm(key, DescD, NameN, tokens))

\* a top-level <SETG var form> or <PSETG var form>
EvalSetg ==
    /\ pc = "start"
    /\ \E head \in SetgHeads, var \in SetgVars, form \in SetgValues :
           Evaluated("setg", SetgForm(head, var, form))

NextHandlers == EvalRoom \/ EvalSetg

SpecHandlers == InitHandlers /\ [][NextHandlers]_vars

(* ------------------------------- claims -------------------------------- *)
\* the last form evaluated on its own, when it is a ROOM form: its key, the
\* tokens of its EXIT list and the exits of the room dict it returned
LastIsRoom == last.kind = "room"
LastKey == last.x.v[2]
LastTokens == Tail(last.x.v[5].v)
LastExits == last.val.v.exits
IsForm(token, sym) == token.k = "list" /\ token.v[1] = sym
IndOf(var) == Str(<<",">> \o var.v)

\* C1: whatever tokens the EXIT handler is given, neither the no-exit
\* sentinel nor the explanation token that follows it is in its output.
C1_SentinelDropped ==
    LastIsRoom =>
        \A i \in 1..Len(LastExits) : LastExits[i] # NEXIT /\ LastExits[i] # Msg

\* C2: the sequence returned by the EXIT handler has even length for every
\* input made of direction/target groups, a sentinel with its explanation
\* counting as one target.
C2_EvenLength == LastIsRoom => Len(LastExits) % 2 = 0

\* C3: Scenario B: after a top-level SETG X <DOOR "D" "A" "B">, the
\* indirection ,X in room A's EXIT list resolves to "B" and the same
\* indirection in room B's EXIT list resolves to "A".
ScenarioB ==
    <<SetgForm(SymSETG, VarX, DoorAB),
      RoomForm(KeyA, DescD, NameN, <<DirN, IndX>>),
      RoomForm(KeyB, DescD, NameN, <<DirS, IndX>>)>>
C3_ScenarioB ==
    (source = ScenarioB /\ pc = "rooms" /\ fresh) =>
        /\ rooms[1].exits[2] = KeyB
        /\ rooms[2].exits[2] = KeyA

\* C4: a DOOR form (doorKey, roomA, roomB) with roomA # roomB placed directly
\* in an EXIT list is replaced by roomB in room roomA and by roomA in room
\* roomB; what replaces it is never the room's own key and is no DOOR form.
C4_DoorOtherSide ==
    LastIsRoom =>
        \A i \in 1..Len(LastTokens) :
            LET token == LastTokens[i]
            IN  (IsForm(token, SymDOOR) /\ token.v[3] # token.v[4]) =>
                    /\ i \in 1..Len(LastExits)
                    /\ LastKey = token.v[3] => LastExits[i] = token.v[4]
                    /\ LastKey = token.v[4] => LastExits[i] = token.v[3]
                    /\ LastExits[i] # LastKey
                    /\ LastExits[i].k = "str"

C4_Witness ==
    /\ LastIsRoom
    /\ LastKey = KeyB
    /\ \E i \in 1..Len(LastTokens) : LastTokens[i] = DoorAB /\ LastExits[i] = KeyA

\* C5: a lookup of ,X returns the value the most recent SETG or PSETG on X
\* returned (and nothing when there was none); a SETG/PSETG returns the value
\* it stored and leaves every other name of the store as it was.
C5_LastWriteWins ==
    /\ \A var \in SetgVars :
          IF var.v \in DOMAIN lastSet
          THEN /\ IndOf(var).v \in DOMAIN global_env
               /\ Lookup(global_env, IndOf(var)) = lastSet[var.v]
          ELSE IndOf(var).v \notin DOMAIN global_env
    /\ last.kind = "setg" =>
          LET name == IndOf(last.x.v[2])
          IN  /\ Lookup(global_env, name) = last.val
              /\ DOMAIN global_env = DOMAIN last.gpre \cup {name.v}
              /\ \A n \in DOMAIN last.gpre :
                     n # name.v => global_env[n] = last.gpre[n]

C5_Witness ==
    /\ last.kind = "setg"
    /\ last.x.v[2] = VarX
    /\ IndX.v \in DOMAIN last.gpre
    /\ IndY.v \in DOMAIN last.gpre
    /\ last.gpre[IndX.v] # last.val
    /\ global_env[IndX.v] = last.val
    /\ global_env[IndY.v] = KeyA

\* C6: the pipeline run twice in one process on the same source text, with
\* the same serializer, gives the same output both times.
C6_SameOutput == \A i \in 1..Len(hist) : \A j \in 1..Len(hist) : hist[i] = hist[j]

\* C7 as stated: every room of the graph builder's output has a non-empty
\* key, name and description.
C7_NonEmpty ==
    (out.kind \in {"graph", "json"} /\ out.ok) =>
        \A i \in 1..Len(out.v.rooms) :
            /\ Len(out.v.rooms[i].key.v) > 0
            /\ Len(out.v.rooms[i].name.v) > 0
            /\ Len(out.v.rooms[i].desc.v) > 0

\* C7 amended: in the graph builder's output each room's key, name and
\* description, when the room's field is a string, is that string without
\* its first and its last character: non-empty exactly when the field has
\* three characters or more, and empty for the empty quoted literal.
C7_Stripped ==
    (out.kind \in {"graph", "json"} /\ out.ok) =>
        /\ Len(out.v.rooms) = Len(rooms)
        /\ \A i \in 1..Len(rooms) : \A f \in {"key", "name", "desc"} :
               LET s == rooms[i][f]
                   o == out.v.rooms[i][f]
               IN  s.k = "str" =>
                       /\ o.k = "str"
                       /\ Len(o.v) = (IF Len(s.v) >= 2 THEN Len(s.v) - 2 ELSE 0)
                       /\ \A c \in 1..Len(o.v) : o.v[c] = s.v[c + 1]
                       /\ Len(o.v) > 0 <=> Len(s.v) >= 3

C7_Witness ==
    /\ out.kind = "json"
    /\ out.ok
    /\ \E i \in 1..Len(rooms) :
           /\ rooms[i].desc = EmptyLit
           /\ out.v.rooms[i].desc.v = <<>>
           /\ out.v.rooms[i].name = Str(<<"n">>)

\* C8: the rooms of get_rooms and of get_graph are the ROOM forms of the
\* source in source order, and get_graph gives, room after room, one edge
\* for each direction/target pair of the room's exits, in the order of the
\* pairs (key, direction and target without their delimiters).
IsRoomForm(x) == IsForm(x, SymROOM)
SourceRooms == SelectSeq(source, IsRoomForm)
Stripped(s) ==
    [k |-> s.k,
     v |-> [c \in 1..(IF Len(s.v) >= 2 THEN Len(s.v) - 2 ELSE 0) |-> s.v[c + 1]]]
RECURSIVE PairsBefore(_, _)
PairsBefore(rs, j) ==
    IF j <= 1 THEN 0 ELSE PairsBefore(rs, j - 1) + Len(rs[j - 1].exits) \div 2
C8_RoomOrder ==
    pc # "start" =>
        /\ Len(rooms) = Len(SourceRooms)
        /\ \A i \in 1..Len(rooms) : rooms[i].key = SourceRooms[i].v[2]
C8_EdgeStep ==
    (pc = "rooms" /\ ~fresh' /\ out'.kind \in {"graph", "json"} /\ out'.ok) =>
        /\ Len(out'.v.rooms) = Len(rooms)
        /\ \A i \in 1..Len(rooms) : out'.v.rooms[i].key = Stripped(rooms[i].key)
        /\ Len(out'.v.exits) = PairsBefore(rooms, Len(rooms) + 1)
        /\ \A j \in 1..Len(rooms) : \A n \in 1..(Len(rooms[j].exits) \div 2) :
               out'.v.exits[PairsBefore(rooms, j) + n]
                   = [source |-> Stripped(rooms[j].key),
                      dir |-> Stripped(rooms[j].exits[2 * n - 1]),
                      target |-> Stripped(rooms[j].exits[2 * n])]
C8_OrderKept == []C8_RoomOrder /\ [][C8_EdgeStep]_vars

C8_Witness ==
    /\ out.kind = "json"
    /\ out.ok
    /\ Len(source) = 3
    /\ ~IsRoomForm(source[2])
    /\ Len(out.v.rooms) = 2
    /\ out.v.rooms[1].key # out.v.rooms[2].key
    /\ Len(out.v.exits) = 3
    /\ out.v.exits[1].source = out.v.rooms[1].key
    /\ out.v.exits[2].dir = Str(<<"S">>)

\* C9: a CEXIT form (conditionName, trueTarget, falseTarget) in an EXIT list
\* is replaced by exactly the evaluated trueTarget (itself when it is a
\* literal, the store's value at that point when it is an indirection),
\* whatever conditionName, falseTarget and the store's entry for the
\* condition are.
SetsBefore(i, name) ==
    \E h \in 1..(i - 1) :
        IsForm(LastTokens[h], SymSETG) /\ IndOf(LastTokens[h].v[2]) = name
C9_CexitTrueTarget ==
    LastIsRoom =>
        \A i \in 1..Len(LastTokens) :
            LET token == LastTokens[i]
                tform == token.v[3]
            IN  IsForm(token, SymCEXIT) =>
                    /\ i \in 1..Len(LastExits)
                    /\ ~StartsWithComma(tform) => LastExits[i] = tform
                    /\ (StartsWithComma(tform) /\ ~SetsBefore(i, tform)) =>
                           LastExits[i] = Lookup(last.gpre, tform)

C9_Witness ==
    /\ LastIsRoom
    /\ IndX.v \in DOMAIN last.gpre
    /\ last.gpre[IndX.v] = DoorAB
    /\ Len(LastTokens) = 4
    /\ LastTokens[2] = CexitLit
    /\ LastExits[2] = KeyB
    /\ LastTokens[4] = CexitInd
    /\ LastExits[4] = DoorAB

\* C10: a room is not changed once the ROOM handler has made it: no
\* serializer call changes a room's key, name, description or exits.
C10_RoomsImmutable == [][(pc = "rooms" /\ runs' = runs) => rooms' = rooms]_vars

====
